---- MODULE Spec2Model ----
(***************************************************************************)
(* Model of the CookBookTasks scripts: the attach workflow                 *)
(* (AttachVolumetoInstance.py), the expand workflow (second half of        *)
(* DeletesnapshotRetention.py), the snapshot creator                       *)
(* (CreateSnapshotforVolume.py) and the ASG remediation                    *)
(* (ReplaceInstanceInASG.py).                                              *)
(*                                                                         *)
(* One behaviour is one invocation of one entry point (wf); pc is the      *)
(* position in its code.  The cloud provider is the environment: every     *)
(* provider call nondeterministically succeeds with any value of a small   *)
(* domain or raises ClientError, and takes 0..MaxInspectDur seconds when   *)
(* it is an inspection inside a timed loop.  elapsed is                    *)
(* time.time() - start of the polling loop being executed.  Variables      *)
(* local to a polling function are cleared when the function returns.      *)
(***************************************************************************)
EXTENDS Integers, Sequences, FiniteSets, TLC

VARIABLES
    wf,              \* the entry point invoked
    pc,              \* position in the code
    result,          \* what the invocation ended with ("pending" while running)
    volume,          \* run(): volume = self.get_volume(...)      (None == <<>>)
    instance,        \* run(): instance = self.get_instance(...)  (None == <<>>)
    new_size,        \* EBSVolumeExpander.run argument
    instances,       \* replace_unhealthy_instances: the listing iterated
                     \* (None until get_asg_instances has returned it)
    idx,             \* replace_unhealthy_instances: position of the for loop
    unhealthy_found, \* replace_unhealthy_instances: flag
    terminated,      \* ids passed to terminate_instance_in_auto_scaling_group, in order
    elapsed,         \* polling loop: time.time() - start
    observed,        \* polling loop: the inspection result that satisfied the target
    polls,           \* polling loop: inspections made by the current call
    sleeps,          \* polling loop: time.sleep calls made by the current call
    inspTime,        \* polling loop: seconds spent inside inspections
    lastEvent,       \* polling loop: last step taken ("start", "inspect", "sleep")
    satSeen,         \* polling loop: some inspection of this call satisfied the target
    inspectFailed,   \* polling loop: some inspection of this call raised ClientError
    mutateCalls,     \* mutating provider calls issued by the invocation
    mutateOk,        \* mutating provider calls that returned without error
    waits,           \* polling-loop calls started by the invocation
    waitsOk,         \* polling-loop calls that returned True
    prereq_log,      \* verify_prereqs: the message it logged ("none" before the call)
    snapshots,       \* delete_old_snapshots: the listing iterated
                     \* (None until describe_snapshots has returned it)
    sidx,            \* delete_old_snapshots: position of the for loop
    deleted_snapshots, \* delete_old_snapshots: the result list
    deleteLog        \* delete_snapshot calls issued, in order, with their outcome

vars == <<wf, pc, result, volume, instance, new_size, instances, idx,
          unhealthy_found, terminated, elapsed, observed, polls, sleeps,
          inspTime, lastEvent, satSeen, inspectFailed, mutateCalls, mutateOk,
          waits, waitsOk, prereq_log, snapshots, sidx, deleted_snapshots,
          deleteLog>>

-----------------------------------------------------------------------------
(* Bounds of the model *)

MaxInspectDur == 1      \* an inspection call takes up to MaxInspectDur seconds
MaxSize == 3            \* volume sizes are 1..MaxSize GiB
MaxAttachments == 1     \* a described volume lists at most this many attachments
MaxListing == 2         \* an ASG listing has at most this many instances

MaxSnapshots == 3       \* a snapshot listing has at most this many snapshots

(* Program constants *)

AttachTimeout == 120    \* verify_attachment(..., timeout=120)
AttachInterval == 5     \* time.sleep(5)
ExpandTimeout == 300    \* verify_expansion(..., timeout=300)
ExpandInterval == 10    \* time.sleep(10)
AsgTimeout == 600       \* wait_for_healthy_instance(..., timeout=600, ...)
AsgInterval == 15       \* wait_for_healthy_instance(..., interval=15)
RETENTION_DAYS == 120   \* RETENTION_DAYS = 120

-----------------------------------------------------------------------------
(* Values *)

None == <<>>
Some(x) == <<x>>
IsNone(o) == Len(o) = 0
Get(o) == o[1]

\* an inspection call returns at once or takes MaxInspectDur seconds
Durations == {0, MaxInspectDur}

SeqsUpTo(S, n) == UNION {[1..k -> S] : k \in 0..n}

\* EBS_VOLUME_ID, EC2_INSTANCE_ID, DEVICE_NAME and one other value of each
VOLUME_ID == "vol-1"
INSTANCE_ID == "i-1"
DEVICE_NAME == "/dev/sdf"
InstanceIds == {INSTANCE_ID, "i-other"}
Devices == {DEVICE_NAME, "/dev/sdg"}
Zones == {"ap-south-1a", "ap-south-1b"}
VolumeStates == {"creating", "available", "in-use"}
InstanceStates == {"running", "stopped"}
AttachmentStates == {"attaching", "attached"}

\* what describe_volumes / describe_instances return, as far as run() reads it
InitialVolumes == [State : VolumeStates, AvailabilityZone : Zones]
InitialInstances == [State : InstanceStates, AvailabilityZone : Zones]

Attachment == [InstanceId : InstanceIds, Device : Devices, State : AttachmentStates]
\* what describe_volumes returns, as far as verify_attachment reads it
PolledVolumes == [State : {"available", "in-use"},
                  Attachments : SeqsUpTo(Attachment, MaxAttachments)]

\* HealthStatus as the ASG reports it, in two spellings of healthy
Health == {"Healthy", "HEALTHY", "Unhealthy"}

\* str.lower() on the HealthStatus values
lower(h) ==
    CASE h = "Healthy" -> "healthy"
      [] h = "HEALTHY" -> "healthy"
      [] h = "Unhealthy" -> "unhealthy"

\* response['AutoScalingGroups'][0]['Instances'] as far as the script reads it;
\* the k-th listed instance has InstanceId k
Listings ==
    UNION {{[k \in 1..n |-> [InstanceId |-> k, HealthStatus |-> h[k]]] :
               h \in [1..n -> Health]} : n \in 0..MaxListing}

Sizes == 1..MaxSize
\* what describe_volumes returns, as far as EBSVolumeExpander reads it
SizedVolumes == [Size : Sizes]

-----------------------------------------------------------------------------
(* Polling-loop bookkeeping shared by the three loops *)

\* entering a polling function: `start = time.time()`
EnterLoop ==
    /\ elapsed' = 0
    /\ observed' = None
    /\ polls' = 0
    /\ sleeps' = 0
    /\ inspTime' = 0
    /\ lastEvent' = "start"
    /\ satSeen' = FALSE
    /\ inspectFailed' = FALSE
    /\ waits' = waits + 1
    /\ UNCHANGED waitsOk

\* returning from a polling function: its local variables are gone
LeaveLoop ==
    /\ elapsed' = 0
    /\ polls' = 0
    /\ sleeps' = 0
    /\ inspTime' = 0

\* an inspection inside a loop that took d seconds and after which the loop goes on
Inspected(d, failed, sat) ==
    /\ elapsed' = elapsed + d
    /\ inspTime' = inspTime + d
    /\ polls' = polls + 1
    /\ lastEvent' = "inspect"
    /\ inspectFailed' = (inspectFailed \/ failed)
    /\ satSeen' = (satSeen \/ sat)
    /\ UNCHANGED <<observed, sleeps, waits, waitsOk>>

\* an inspection inside a loop that returned r, followed at once by `return True`
Returned(r, failed, sat) ==
    /\ LeaveLoop
    /\ lastEvent' = "inspect"
    /\ inspectFailed' = (inspectFailed \/ failed)
    /\ satSeen' = (satSeen \/ sat)
    /\ observed' = r
    /\ waitsOk' = waitsOk + 1
    /\ UNCHANGED waits

\* the loop condition failed: the function logs the timeout and returns False
TimedOut ==
    /\ LeaveLoop
    /\ lastEvent' = "timeout"
    /\ UNCHANGED <<observed, satSeen, inspectFailed, waits, waitsOk>>

\* time.sleep(interval)
Slept(interval) ==
    /\ elapsed' = elapsed + interval
    /\ sleeps' = sleeps + 1
    /\ lastEvent' = "sleep"
    /\ UNCHANGED <<observed, polls, inspTime, satSeen, inspectFailed, waits, waitsOk>>

LoopVars == <<elapsed, observed, polls, sleeps, inspTime, lastEvent, satSeen,
              inspectFailed, waits, waitsOk>>
AsgVars == <<instances, idx, unhealthy_found, terminated>>
CleanerVars == <<snapshots, sidx, deleted_snapshots, deleteLog>>

\* the invocation ends with value r
Finish(r) ==
    /\ result' = r
    /\ pc' = "done"

-----------------------------------------------------------------------------
(* EBSVolumeAttacher  (src/AttachVolumetoInstance.py) *)

\* get_volume: the described volume, or None on ClientError
Attacher_get_volume == {None} \cup {Some(v) : v \in InitialVolumes}

\* get_instance: the described instance, or None on ClientError
Attacher_get_instance == {None} \cup {Some(i) : i \in InitialInstances}

\* get_volume as called by verify_attachment
Attacher_poll_volume == {None} \cup {Some(v) : v \in PolledVolumes}

\* variant of verify_prereqs: the availability-zone check comes first
verify_prereqs_az_first(v, i) ==
    IF v.AvailabilityZone # i.AvailabilityZone THEN "az_mismatch"
    ELSE IF v.State # "available" THEN "volume_not_available"
    ELSE IF i.State # "running" THEN "instance_not_running"
    ELSE "passed"

\* verify_prereqs: the first failing check, in the order of the code, or "passed"
verify_prereqs(v, i) ==
    IF v.State # "available" THEN "volume_not_available"
    ELSE IF i.State # "running" THEN "instance_not_running"
    ELSE IF v.AvailabilityZone # i.AvailabilityZone THEN "az_mismatch"
    ELSE "passed"

\* variant of Attacher_after_fetch: the `return False` is missing, so a failed
\* fetch falls through to the attach
Attacher_after_fetch_falls_through(v, i) ==
    IF IsNone(v) \/ IsNone(i) THEN "a_attach" ELSE "a_prereqs"

\* run: `if not volume or not instance: return False`
Attacher_after_fetch(v, i) ==
    IF IsNone(v) \/ IsNone(i) THEN "a_return_false" ELSE "a_prereqs"

\* run: `if not self.verify_prereqs(volume, instance): return False`
Attacher_after_prereqs(v, i) ==
    IF verify_prereqs(v, i) # "passed" THEN "a_return_false" ELSE "a_attach"

\* variant of Attacher_after_attach: a failed attach is tried again
Attacher_after_attach_retry(ok) ==
    IF ok THEN "va_while" ELSE "a_attach"

\* variant of Attacher_after_attach: the result of attach() is ignored
Attacher_after_attach_ignores(ok) == "va_while"

\* run: `if not self.attach(...): return False`, else verify_attachment is entered
Attacher_after_attach(ok) ==
    IF ok THEN "va_while" ELSE "a_return_false"

\* variant of verify_attachment_continues: the comparison written as `<=`
verify_attachment_continues_inclusive(el) == el <= AttachTimeout

\* verify_attachment: `while time.time() - start < timeout`
verify_attachment_continues(el) == el < AttachTimeout

\* variant of attachment_verified: the attachment's State is not tested
attachment_verified_any_state(vol) ==
    /\ ~IsNone(vol)
    /\ Get(vol).State = "in-use"
    /\ \E k \in DOMAIN Get(vol).Attachments :
          LET att == Get(vol).Attachments[k] IN
          /\ att.InstanceId = INSTANCE_ID
          /\ att.Device = DEVICE_NAME

\* verify_attachment: the condition under which it returns True
attachment_verified(vol) ==
    /\ ~IsNone(vol)
    /\ Get(vol).State = "in-use"
    /\ \E k \in DOMAIN Get(vol).Attachments :
          LET att == Get(vol).Attachments[k] IN
          /\ att.InstanceId = INSTANCE_ID
          /\ att.Device = DEVICE_NAME
          /\ att.State = "attached"

\* verify_attachment: `return True` inside the loop, or fall to time.sleep(5)
verify_attachment_after_inspect(sat) ==
    IF sat THEN "va_return_true" ELSE "va_sleep"

A_GetVolume ==
    /\ pc = "a_get_volume"
    /\ \E v \in Attacher_get_volume : volume' = v
    /\ pc' = "a_get_instance"
    /\ UNCHANGED <<CleanerVars, prereq_log, wf, result, instance, new_size, AsgVars, LoopVars,
                   mutateCalls, mutateOk>>

A_GetInstance ==
    /\ pc = "a_get_instance"
    /\ \E i \in Attacher_get_instance : instance' = i
    /\ pc' = "a_fetched"
    /\ UNCHANGED <<CleanerVars, prereq_log, wf, result, volume, new_size, AsgVars, LoopVars,
                   mutateCalls, mutateOk>>

A_CheckFetched ==
    /\ pc = "a_fetched"
    /\ pc' = Attacher_after_fetch(volume, instance)
    /\ UNCHANGED <<CleanerVars, prereq_log, wf, result, volume, instance, new_size, AsgVars, LoopVars,
                   mutateCalls, mutateOk>>

A_VerifyPrereqs ==
    /\ pc = "a_prereqs"
    /\ prereq_log' = verify_prereqs(Get(volume), Get(instance))
    /\ pc' = Attacher_after_prereqs(Get(volume), Get(instance))
    /\ UNCHANGED <<CleanerVars, wf, result, volume, instance, new_size, AsgVars, LoopVars,
                   mutateCalls, mutateOk>>

\* attach(): the single attach_volume call
A_Attach ==
    /\ pc = "a_attach"
    /\ mutateCalls' = mutateCalls + 1
    /\ \E ok \in BOOLEAN :
          /\ mutateOk' = mutateOk + (IF ok THEN 1 ELSE 0)
          /\ pc' = Attacher_after_attach(ok)
          /\ IF pc' = "va_while" THEN EnterLoop ELSE UNCHANGED LoopVars
    /\ UNCHANGED <<CleanerVars, prereq_log, wf, result, volume, instance, new_size, AsgVars>>

A_ReturnFalse ==
    /\ pc = "a_return_false"
    /\ Finish("False")
    /\ UNCHANGED <<CleanerVars, prereq_log, wf, volume, instance, new_size, AsgVars, LoopVars,
                   mutateCalls, mutateOk>>

VA_While ==
    /\ pc = "va_while"
    /\ pc' = IF verify_attachment_continues(elapsed) THEN "va_inspect" ELSE "va_timeout"
    /\ UNCHANGED <<CleanerVars, prereq_log, wf, result, volume, instance, new_size, AsgVars, LoopVars,
                   mutateCalls, mutateOk>>

VA_Inspect ==
    /\ pc = "va_inspect"
    /\ \/ \E vol \in Attacher_poll_volume :
             LET sat == attachment_verified(vol) IN
             /\ verify_attachment_after_inspect(sat) = "va_return_true"
             /\ Returned(vol, IsNone(vol), sat)
             /\ Finish("True")
       \/ \E d \in Durations, failed \in BOOLEAN, sat \in BOOLEAN :
             /\ {vol \in Attacher_poll_volume :
                   IsNone(vol) = failed /\ attachment_verified(vol) = sat} # {}
             /\ verify_attachment_after_inspect(sat) # "va_return_true"
             /\ Inspected(d, failed, sat)
             /\ pc' = verify_attachment_after_inspect(sat)
             /\ UNCHANGED result
    /\ UNCHANGED <<CleanerVars, prereq_log, wf, volume, instance, new_size, AsgVars, mutateCalls, mutateOk>>

VA_Sleep ==
    /\ pc = "va_sleep"
    /\ Slept(AttachInterval)
    /\ pc' = "va_while"
    /\ UNCHANGED <<CleanerVars, prereq_log, wf, result, volume, instance, new_size, AsgVars,
                   mutateCalls, mutateOk>>

\* verify_attachment returns False after the loop and run returns that value
VA_Timeout ==
    /\ pc = "va_timeout"
    /\ TimedOut
    /\ Finish("False")
    /\ UNCHANGED <<CleanerVars, prereq_log, wf, volume, instance, new_size, AsgVars, mutateCalls, mutateOk>>

-----------------------------------------------------------------------------
(* EBSVolumeExpander  (src/DeletesnapshotRetention.py, second script) *)

\* get_volume: the described volume, or None on ClientError
Expander_get_volume == {None} \cup {Some(v) : v \in SizedVolumes}

\* run: `if not volume: return False`
Expander_after_fetch(v) ==
    IF IsNone(v) THEN "e_return_false" ELSE "e_check_size"

\* variant of Expander_after_size_check: the comparison written as `<`
Expander_after_size_check_strict(size, current_size) ==
    IF size < current_size THEN "e_return_false" ELSE "e_modify"

\* run: `if new_size <= current_size: return False`
Expander_after_size_check(size, current_size) ==
    IF size <= current_size THEN "e_return_false" ELSE "e_modify"

\* run: `if not self.expand_volume(...): return False`, else verify_expansion is entered
Expander_after_modify(ok) ==
    IF ok THEN "ve_while" ELSE "e_return_false"

\* verify_expansion: `while time.time() - start < timeout`
verify_expansion_continues(el) == el < ExpandTimeout

\* verify_expansion: `if vol and vol["Size"] >= new_size`
expansion_verified(vol, size) ==
    /\ ~IsNone(vol)
    /\ Get(vol).Size >= size

\* verify_expansion: `return True` inside the loop, or fall to time.sleep(10)
verify_expansion_after_inspect(sat) ==
    IF sat THEN "ve_return_true" ELSE "ve_sleep"

E_GetVolume ==
    /\ pc = "e_get_volume"
    /\ \E v \in Expander_get_volume :
          /\ volume' = v
          /\ pc' = Expander_after_fetch(v)
    /\ UNCHANGED <<CleanerVars, prereq_log, wf, result, instance, new_size, AsgVars, LoopVars,
                   mutateCalls, mutateOk>>

E_CheckSize ==
    /\ pc = "e_check_size"
    /\ pc' = Expander_after_size_check(new_size, Get(volume).Size)
    /\ UNCHANGED <<CleanerVars, prereq_log, wf, result, volume, instance, new_size, AsgVars, LoopVars,
                   mutateCalls, mutateOk>>

\* expand_volume(): the single modify_volume call
E_Modify ==
    /\ pc = "e_modify"
    /\ mutateCalls' = mutateCalls + 1
    /\ \E ok \in BOOLEAN :
          /\ mutateOk' = mutateOk + (IF ok THEN 1 ELSE 0)
          /\ pc' = Expander_after_modify(ok)
          /\ IF pc' = "ve_while" THEN EnterLoop ELSE UNCHANGED LoopVars
    /\ UNCHANGED <<CleanerVars, prereq_log, wf, result, volume, instance, new_size, AsgVars>>

E_ReturnFalse ==
    /\ pc = "e_return_false"
    /\ Finish("False")
    /\ UNCHANGED <<CleanerVars, prereq_log, wf, volume, instance, new_size, AsgVars, LoopVars,
                   mutateCalls, mutateOk>>

VE_While ==
    /\ pc = "ve_while"
    /\ pc' = IF verify_expansion_continues(elapsed) THEN "ve_inspect" ELSE "ve_timeout"
    /\ UNCHANGED <<CleanerVars, prereq_log, wf, result, volume, instance, new_size, AsgVars, LoopVars,
                   mutateCalls, mutateOk>>

VE_Inspect ==
    /\ pc = "ve_inspect"
    /\ \E d \in Durations, vol \in Expander_get_volume :
          LET sat == expansion_verified(vol, new_size)
              to == verify_expansion_after_inspect(sat)
          IN  IF to = "ve_return_true"
              THEN Returned(vol, IsNone(vol), sat) /\ Finish("True")
              ELSE Inspected(d, IsNone(vol), sat) /\ pc' = to /\ UNCHANGED result
    /\ UNCHANGED <<CleanerVars, prereq_log, wf, volume, instance, new_size, AsgVars, mutateCalls, mutateOk>>

VE_Sleep ==
    /\ pc = "ve_sleep"
    /\ Slept(ExpandInterval)
    /\ pc' = "ve_while"
    /\ UNCHANGED <<CleanerVars, prereq_log, wf, result, volume, instance, new_size, AsgVars,
                   mutateCalls, mutateOk>>

\* verify_expansion returns False after the loop and run returns that value
VE_Timeout ==
    /\ pc = "ve_timeout"
    /\ TimedOut
    /\ Finish("False")
    /\ UNCHANGED <<CleanerVars, prereq_log, wf, volume, instance, new_size, AsgVars, mutateCalls, mutateOk>>

-----------------------------------------------------------------------------
(* EBSSnapshotManager  (src/CreateSnapshotforVolume.py) *)

\* what self.ec2.create_snapshot does: answers, or raises ClientError
create_snapshot_outcomes == {"SnapshotId", "ClientError"}

\* what waiter.wait does: returns when the snapshot completed, or raises
\* WaiterError (failure state, or max attempts exceeded)
waiter_outcomes == {"completed", "WaiterError"}

\* create_snapshot: `except ClientError as e` is the only handler of the try block
create_snapshot_handles(exc) == exc = "ClientError"

\* create_snapshot: the call of self.ec2.create_snapshot
S_Create ==
    /\ pc = "s_create"
    /\ mutateCalls' = mutateCalls + 1
    /\ \E out \in create_snapshot_outcomes :
          IF out = "SnapshotId"
          THEN /\ mutateOk' = mutateOk + 1
               /\ pc' = "s_wait"
               /\ UNCHANGED result
          ELSE /\ mutateOk' = mutateOk
               /\ IF create_snapshot_handles(out) THEN Finish("None") ELSE Finish(out)
    /\ UNCHANGED <<CleanerVars, prereq_log, wf, volume, instance, new_size, AsgVars, LoopVars>>

\* create_snapshot: self._wait_for_snapshot(snapshot_id), then `return snapshot_id`
S_Wait ==
    /\ pc = "s_wait"
    /\ \E out \in waiter_outcomes :
          IF out = "completed" THEN Finish("SnapshotId")
          ELSE IF create_snapshot_handles(out) THEN Finish("None")
          ELSE Finish(out)
    /\ UNCHANGED <<CleanerVars, prereq_log, wf, volume, instance, new_size, AsgVars, LoopVars,
                   mutateCalls, mutateOk>>

-----------------------------------------------------------------------------
(* ASGManager  (src/ReplaceInstanceInASG.py) *)

\* get_asg_instances: the listing ([] when the ASG is not found), or None here
\* for the ClientError branch, which ends in sys.exit(1)
get_asg_instances == {None} \cup {Some(l) : l \in Listings}

\* a listing whose instances carry the next ids: the first listed instance is
\* gone and a newly launched one is listed last
Shifted(l) ==
    [k \in DOMAIN l |-> [InstanceId |-> l[k].InstanceId + 1,
                         HealthStatus |-> l[k].HealthStatus]]

\* get_asg_instances as called by wait_for_healthy_instance, when the fleet may
\* have changed: a listing with the old or with the next ids, or None for the
\* ClientError branch
poll_asg_instances ==
    {None} \cup {Some(l) : l \in Listings} \cup {Some(Shifted(l)) : l \in Listings}

\* variant of is_unhealthy: the comparison without .lower()
is_unhealthy_case_sensitive(inst) == inst.HealthStatus # "healthy"

\* replace_unhealthy_instances: `if health_status.lower() != 'healthy'`
is_unhealthy(inst) == lower(inst.HealthStatus) # "healthy"

\* wait_for_healthy_instance: `all(inst['HealthStatus'].lower() == 'healthy' ...)`
all_healthy(listing) ==
    \A k \in DOMAIN listing : lower(listing[k].HealthStatus) = "healthy"

\* replace_unhealthy_instances: `if not instances: return`
replace_after_listing(listing) ==
    IF Len(listing) = 0 THEN "r_return" ELSE "r_for"

\* replace_unhealthy_instances: the for loop over the listing
replace_after_check(listing, i) ==
    IF i > Len(listing) THEN "r_end"
    ELSE IF is_unhealthy(listing[i]) THEN "r_terminate"
    ELSE "r_for"

\* variant of terminate_target: the id of the first listed instance is used
terminate_target_first(listing, i) == listing[1].InstanceId

\* replace_unhealthy_instances: `instance_id = inst['InstanceId']`, the id
\* passed to terminate_instance_in_auto_scaling_group
terminate_target(listing, i) == listing[i].InstanceId

\* replace_unhealthy_instances: after terminate_instance_in_auto_scaling_group
replace_after_terminate(ok) ==
    IF ok THEN "w_while" ELSE "r_exit"

\* variant of replace_after_wait: a timed-out wait is logged and the loop goes on
replace_after_wait_continues(ok) == "r_for"

\* variant of replace_after_wait: after a successful wait the same instance is
\* handled again
replace_after_wait_repeats(ok) ==
    IF ok THEN "r_terminate" ELSE "r_exit"

\* replace_unhealthy_instances: `if not self.wait_for_healthy_instance(asg_name)`
replace_after_wait(ok) ==
    IF ok THEN "r_for" ELSE "r_exit"

\* wait_for_healthy_instance: `while time.time() - start_time < timeout`
wait_continues(el) == el < AsgTimeout

\* variant of wait_after_inspect: the sleep precedes the test of all_healthy
wait_after_inspect_sleeps(sat) == "w_sleep"

\* wait_for_healthy_instance: `return True` inside the loop, or go on to time.sleep
wait_after_inspect(sat) ==
    IF sat THEN "w_return_true" ELSE "w_sleep"

\* instances = self.get_asg_instances(asg_name)
R_List ==
    /\ pc = "r_list"
    /\ \E r \in get_asg_instances :
          IF IsNone(r)
          THEN Finish("SystemExit") /\ UNCHANGED instances
          ELSE /\ instances' = r
               /\ pc' = replace_after_listing(Get(r))
               /\ UNCHANGED result
    /\ idx' = 1
    /\ UNCHANGED <<CleanerVars, prereq_log, wf, volume, instance, new_size, unhealthy_found, terminated,
                   LoopVars, mutateCalls, mutateOk>>

\* one pass of `for inst in instances` up to the health test
R_For ==
    /\ pc = "r_for"
    /\ LET to == replace_after_check(Get(instances), idx) IN
          /\ pc' = to
          /\ idx' = IF to = "r_for" THEN idx + 1 ELSE idx
          /\ unhealthy_found' = (unhealthy_found \/ to = "r_terminate")
    /\ UNCHANGED <<CleanerVars, prereq_log, wf, result, volume, instance, new_size, instances, terminated,
                   LoopVars, mutateCalls, mutateOk>>

\* terminate_instance_in_auto_scaling_group(InstanceId=instance_id, ...)
R_Terminate ==
    /\ pc = "r_terminate"
    /\ mutateCalls' = mutateCalls + 1
    /\ terminated' = Append(terminated, terminate_target(Get(instances), idx))
    /\ \E ok \in BOOLEAN :
          /\ mutateOk' = mutateOk + (IF ok THEN 1 ELSE 0)
          /\ pc' = replace_after_terminate(ok)
          /\ IF pc' = "w_while" THEN EnterLoop ELSE UNCHANGED LoopVars
    /\ UNCHANGED <<CleanerVars, prereq_log, wf, result, volume, instance, new_size, instances, idx,
                   unhealthy_found>>

\* sys.exit(1) after a failed terminate or a failed wait
R_Exit ==
    /\ pc = "r_exit"
    /\ Finish("SystemExit")
    /\ UNCHANGED <<CleanerVars, prereq_log, wf, volume, instance, new_size, AsgVars, LoopVars,
                   mutateCalls, mutateOk>>

\* `return` on an empty listing
R_Return ==
    /\ pc = "r_return"
    /\ Finish("None")
    /\ UNCHANGED <<CleanerVars, prereq_log, wf, volume, instance, new_size, AsgVars, LoopVars,
                   mutateCalls, mutateOk>>

\* end of the for loop: the function returns (None)
R_End ==
    /\ pc = "r_end"
    /\ Finish("None")
    /\ UNCHANGED <<CleanerVars, prereq_log, wf, volume, instance, new_size, AsgVars, LoopVars,
                   mutateCalls, mutateOk>>

W_While ==
    /\ pc = "w_while"
    /\ pc' = IF wait_continues(elapsed) THEN "w_inspect" ELSE "w_timeout"
    /\ UNCHANGED <<CleanerVars, prereq_log, wf, result, volume, instance, new_size, AsgVars, LoopVars,
                   mutateCalls, mutateOk>>

W_Inspect ==
    /\ pc = "w_inspect"
    /\ \/ \E d \in Durations :
             /\ None \in poll_asg_instances
             /\ Inspected(d, TRUE, FALSE)
             /\ Finish("SystemExit")
             /\ UNCHANGED idx
       \/ \E r \in poll_asg_instances \ {None} :
             LET sat == all_healthy(Get(r)) IN
             /\ wait_after_inspect(sat) = "w_return_true"
             /\ Returned(r, FALSE, sat)
             /\ pc' = replace_after_wait(TRUE)
             /\ idx' = IF pc' = "r_for" THEN idx + 1 ELSE idx
             /\ UNCHANGED result
       \/ \E d \in Durations, sat \in BOOLEAN :
             /\ {r \in poll_asg_instances \ {None} : all_healthy(Get(r)) = sat} # {}
             /\ wait_after_inspect(sat) # "w_return_true"
             /\ Inspected(d, FALSE, sat)
             /\ pc' = wait_after_inspect(sat)
             /\ UNCHANGED <<result, idx>>
    /\ UNCHANGED <<CleanerVars, prereq_log, wf, volume, instance, new_size, instances, unhealthy_found,
                   terminated, mutateCalls, mutateOk>>

W_Sleep ==
    /\ pc = "w_sleep"
    /\ Slept(AsgInterval)
    /\ pc' = "w_while"
    /\ UNCHANGED <<CleanerVars, prereq_log, wf, result, volume, instance, new_size, AsgVars,
                   mutateCalls, mutateOk>>

\* wait_for_healthy_instance returns False after the loop
W_Timeout ==
    /\ pc = "w_timeout"
    /\ TimedOut
    /\ pc' = replace_after_wait(FALSE)
    /\ idx' = IF pc' = "r_for" THEN idx + 1 ELSE idx
    /\ UNCHANGED <<CleanerVars, prereq_log, wf, result, volume, instance, new_size, instances,
                   unhealthy_found, terminated, mutateCalls, mutateOk>>

-----------------------------------------------------------------------------
(* EBSSnapshotCleaner  (src/DeletesnapshotRetention.py, first script) *)

\* datetime.datetime.utcnow(), in days: any day later than the oldest snapshot
utcnow == 2 * RETENTION_DAYS

\* ages of the listed snapshots, in days: younger than, exactly at and one day
\* past the retention period
SnapshotAges == {RETENTION_DAYS - 30, RETENTION_DAYS, RETENTION_DAYS + 1}

\* describe_snapshots(OwnerIds=['self'])['Snapshots'] as far as the script reads
\* it; the k-th listed snapshot has SnapshotId k
SnapshotListings ==
    UNION {{[k \in 1..n |-> [SnapshotId |-> k, StartTime |-> utcnow - a[k]]] :
               a \in [1..n -> SnapshotAges]} : n \in 0..MaxSnapshots}

\* describe_snapshots: the listing, or None here for the ClientError branch
describe_snapshots == {None} \cup {Some(l) : l \in SnapshotListings}

\* cutoff_date = utcnow() - timedelta(days=retention_days)
cutoff_date(retention_days) == utcnow - retention_days

\* variant of is_old: the comparison written as `<=`
is_old_inclusive(snap, cutoff) == snap.StartTime <= cutoff

\* `if start_time < cutoff_date`
is_old(snap, cutoff) == snap.StartTime < cutoff

\* the for loop over the snapshots
cleaner_after_check(listing, i, cutoff) ==
    IF i > Len(listing) THEN "d_exit"
    ELSE IF is_old(listing[i], cutoff) THEN "d_delete"
    ELSE "d_for"

\* variant of cleaner_after_delete: a failed delete ends the loop
cleaner_after_delete_aborts(ok) ==
    IF ok THEN "d_for" ELSE "d_exit"

\* the try / except ClientError around delete_snapshot: the loop goes on either way
cleaner_after_delete(ok) == "d_for"

\* snapshots = self.ec2.describe_snapshots(OwnerIds=['self'])['Snapshots']
D_List ==
    /\ pc = "d_list"
    /\ \E r \in describe_snapshots :
          IF IsNone(r)
          THEN Finish("SystemExit") /\ UNCHANGED snapshots
          ELSE /\ snapshots' = r
               /\ pc' = "d_for"
               /\ UNCHANGED result
    /\ sidx' = 1
    /\ deleted_snapshots' = <<>>
    /\ UNCHANGED <<deleteLog, prereq_log, wf, volume, instance, new_size,
                   AsgVars, LoopVars, mutateCalls, mutateOk>>

\* one pass of `for snap in snapshots` up to the age test
D_For ==
    /\ pc = "d_for"
    /\ LET to == cleaner_after_check(Get(snapshots), sidx, cutoff_date(RETENTION_DAYS)) IN
          /\ pc' = to
          /\ sidx' = IF to = "d_for" THEN sidx + 1 ELSE sidx
    /\ UNCHANGED <<snapshots, deleted_snapshots, deleteLog, prereq_log, wf, result,
                   volume, instance, new_size, AsgVars, LoopVars, mutateCalls,
                   mutateOk>>

\* self.ec2.delete_snapshot(SnapshotId=snapshot_id), then the append or the except
D_Delete ==
    /\ pc = "d_delete"
    /\ mutateCalls' = mutateCalls + 1
    /\ \E ok \in BOOLEAN :
          LET snapshot_id == Get(snapshots)[sidx].SnapshotId IN
          /\ mutateOk' = mutateOk + (IF ok THEN 1 ELSE 0)
          /\ deleteLog' = Append(deleteLog, [SnapshotId |-> snapshot_id, ok |-> ok])
          /\ deleted_snapshots' =
                IF ok THEN Append(deleted_snapshots, snapshot_id) ELSE deleted_snapshots
          /\ pc' = cleaner_after_delete(ok)
          /\ sidx' = IF pc' = "d_for" THEN sidx + 1 ELSE sidx
    /\ UNCHANGED <<snapshots, prereq_log, wf, result, volume, instance, new_size,
                   AsgVars, LoopVars>>

\* sys.exit(0) after the loop, whether or not anything was deleted
D_Exit ==
    /\ pc = "d_exit"
    /\ Finish("SystemExit0")
    /\ UNCHANGED <<CleanerVars, prereq_log, wf, volume, instance, new_size,
                   AsgVars, LoopVars, mutateCalls, mutateOk>>

-----------------------------------------------------------------------------
(* The invocations *)

Workflows == {"attach", "expand", "snapshot", "asg", "cleanup"}

Entry(w) ==
    CASE w = "attach" -> "a_get_volume"
      [] w = "expand" -> "e_get_volume"
      [] w = "snapshot" -> "s_create"
      [] w = "asg" -> "r_list"
      [] w = "cleanup" -> "d_list"

Init ==
    /\ wf \in Workflows
    /\ pc = Entry(wf)
    /\ result = "pending"
    /\ volume = None
    /\ instance = None
    /\ new_size \in (IF wf = "expand" THEN Sizes ELSE {0})
    /\ instances = None
    /\ idx = 1
    /\ unhealthy_found = FALSE
    /\ terminated = <<>>
    /\ elapsed = 0
    /\ observed = None
    /\ polls = 0
    /\ sleeps = 0
    /\ inspTime = 0
    /\ lastEvent = "none"
    /\ satSeen = FALSE
    /\ inspectFailed = FALSE
    /\ mutateCalls = 0
    /\ mutateOk = 0
    /\ waits = 0
    /\ waitsOk = 0
    /\ prereq_log = "none"
    /\ snapshots = None
    /\ sidx = 1
    /\ deleted_snapshots = <<>>
    /\ deleteLog = <<>>

Next ==
    \/ A_GetVolume \/ A_GetInstance \/ A_CheckFetched \/ A_VerifyPrereqs
    \/ A_Attach \/ A_ReturnFalse
    \/ VA_While \/ VA_Inspect \/ VA_Sleep \/ VA_Timeout
    \/ E_GetVolume \/ E_CheckSize \/ E_Modify \/ E_ReturnFalse
    \/ VE_While \/ VE_Inspect \/ VE_Sleep \/ VE_Timeout
    \/ S_Create \/ S_Wait
    \/ R_List \/ R_For \/ R_Terminate \/ R_Exit \/ R_Return \/ R_End
    \/ W_While \/ W_Inspect \/ W_Sleep \/ W_Timeout
    \/ D_List \/ D_For \/ D_Delete \/ D_Exit

Spec == Init /\ [][Next]_vars

\* every provider call returns and every sleep ends: the single thread of the
\* invocation always takes its next step
FairSpec == Spec /\ WF_vars(Next)

-----------------------------------------------------------------------------
(* Properties *)

Ceil(a, b) == (a + b - 1) \div b

AttachLoopPcs == {"va_while", "va_inspect", "va_sleep", "va_timeout"}
ExpandLoopPcs == {"ve_while", "ve_inspect", "ve_sleep", "ve_timeout"}
AsgLoopPcs == {"w_while", "w_inspect", "w_sleep", "w_timeout"}
LoopPcs == AttachLoopPcs \cup ExpandLoopPcs \cup AsgLoopPcs
TimeoutPcs == {"va_timeout", "ve_timeout", "w_timeout"}
SleepPcs == {"va_sleep", "ve_sleep", "w_sleep"}

\* timeout and interval of the loop the invocation runs
LoopTimeout ==
    CASE wf = "attach" -> AttachTimeout
      [] wf = "expand" -> ExpandTimeout
      [] OTHER -> AsgTimeout
LoopInterval ==
    CASE wf = "attach" -> AttachInterval
      [] wf = "expand" -> ExpandInterval
      [] OTHER -> AsgInterval

\* a precondition fails on the initially inspected state
PreconditionFails ==
    \/ /\ wf = "attach"
       /\ ~IsNone(volume)
       /\ ~IsNone(instance)
       /\ \/ Get(volume).State # "available"
          \/ Get(instance).State # "running"
          \/ Get(volume).AvailabilityZone # Get(instance).AvailabilityZone
    \/ /\ wf = "expand"
       /\ ~IsNone(volume)
       /\ new_size <= Get(volume).Size

\* C1: in the attach and the expand run, when a precondition fails on the
\* initially inspected state (volume not available, instance not running, AZ
\* mismatch, requested size <= current size), attach_volume / modify_volume is
\* called zero times, no wait is started, and the run ends returning False.
C1_PreconditionGate ==
    PreconditionFails =>
        /\ mutateCalls = 0
        /\ waits = 0
        /\ pc \notin {"a_attach", "e_modify"} \cup LoopPcs
        /\ pc = "done" => result = "False"

\* the expand run asked for exactly the current size, and has returned
C1_Witness ==
    /\ wf = "expand"
    /\ pc = "done"
    /\ ~IsNone(volume)
    /\ new_size = Get(volume).Size
    /\ result = "False"

\* C2: an attach run, expand run or create_snapshot issues its mutating call
\* (attach_volume, modify_volume, create_snapshot) at most once, whatever the
\* outcome, and not again while the wait goes on.
C2_AtMostOneMutation ==
    wf \in {"attach", "expand", "snapshot"} =>
        /\ mutateCalls <= 1
        /\ pc \in LoopPcs => mutateCalls = 1

\* an attach run that issued the call, waited and ended in the timeout
C2_Witness ==
    /\ wf = "attach"
    /\ pc = "done"
    /\ result = "False"
    /\ lastEvent = "timeout"
    /\ mutateCalls = 1

\* C3: once an inspection of a polling loop satisfies the target, the loop has
\* returned True with that inspection as its last step: it is not inside the
\* loop any more, no sleep followed the inspection, and (attach, expand) the
\* run's result is True.
C3_ReturnsOnFirstSuccess ==
    satSeen =>
        /\ pc \notin LoopPcs
        /\ lastEvent = "inspect"
        /\ sleeps = 0
        /\ waitsOk >= 1
        /\ ~IsNone(observed)
        /\ wf \in {"attach", "expand"} => (pc = "done" /\ result = "True")

\* the ASG wait returned True on an all-healthy listing and the batch goes on
C3_Witness ==
    /\ wf = "asg"
    /\ satSeen
    /\ pc = "r_for"
    /\ ~IsNone(observed)
    /\ Len(Get(observed)) > 0

\* C4 as stated: a loop that never saw its target returns the timeout only
\* when elapsed >= timeout, after ceil(timeout / interval) inspections give or
\* take one.
C4_Original ==
    pc \in TimeoutPcs =>
        /\ elapsed >= LoopTimeout
        /\ polls >= Ceil(LoopTimeout, LoopInterval) - 1
        /\ polls <= Ceil(LoopTimeout, LoopInterval) + 1

\* C4 (amended): a loop that never saw its target returns the timeout only
\* when elapsed >= timeout; it made at most ceil(timeout / interval)
\* inspections, exactly that many when the inspections took no time, and in
\* general enough for inspections * interval + time inside inspections to
\* reach the timeout.
C4_TimeoutCount ==
    pc \in TimeoutPcs =>
        /\ ~satSeen
        /\ elapsed >= LoopTimeout
        /\ polls <= Ceil(LoopTimeout, LoopInterval)
        /\ polls * LoopInterval + inspTime >= LoopTimeout
        /\ inspTime = 0 => polls = Ceil(LoopTimeout, LoopInterval)

\* the attach wait timed out after fewer than 23 inspections
C4_Witness ==
    /\ pc = "va_timeout"
    /\ polls < Ceil(AttachTimeout, AttachInterval) - 1
    /\ inspTime > 0

\* C5 as stated: a polling loop is never past its deadline: neither a sleep
\* nor the loop as a whole goes on after start + timeout.
C5_NeverPastDeadline ==
    pc \in LoopPcs => elapsed <= LoopTimeout

\* C6 as stated: after a failed inspection the loop is still polling, or it
\* ended by convergence or by the deadline.
C6_InspectionFailureSwallowed ==
    inspectFailed =>
        \/ pc \in LoopPcs
        \/ satSeen
        \/ lastEvent = "timeout"

\* C7 as stated: an invocation ends by returning a value to its caller.
C7_AlwaysReturns ==
    pc = "done" => result \in {"True", "False", "None", "SnapshotId"}

\* an initial inspection of the run failed
InitialInspectionFailed ==
    \/ /\ wf = "attach"
       /\ \/ pc # "a_get_volume" /\ IsNone(volume)
          \/ pc \notin {"a_get_volume", "a_get_instance"} /\ IsNone(instance)
    \/ /\ wf = "expand"
       /\ pc # "e_get_volume"
       /\ IsNone(volume)

\* C8: when get_volume or get_instance fails at the start of the attach run,
\* or get_volume at the start of the expand run, no mutating call and no
\* polling inspection is issued, and the run ends returning False.
C8_FailedInspectionGate ==
    InitialInspectionFailed =>
        /\ mutateCalls = 0
        /\ waits = 0
        /\ polls = 0
        /\ pc \notin {"a_prereqs", "a_attach", "e_check_size", "e_modify"} \cup LoopPcs
        /\ pc = "done" => result = "False"

\* the attach run fetched an available volume, failed to fetch the instance,
\* and has returned
C8_Witness ==
    /\ wf = "attach"
    /\ pc = "done"
    /\ ~IsNone(volume)
    /\ Get(volume).State = "available"
    /\ IsNone(instance)
    /\ result = "False"

\* the listing was returned and every member is healthy in some spelling
AllListedHealthy ==
    /\ wf = "asg"
    /\ ~IsNone(instances)
    /\ \A k \in DOMAIN Get(instances) :
          Get(instances)[k].HealthStatus \in {"Healthy", "HEALTHY"}

\* C9: on a listing that is empty or whose members are all healthy (in any
\* spelling), replace_unhealthy_instances issues no terminate call, starts no
\* wait, and ends by returning.
C9_AllHealthyNoMutation ==
    AllListedHealthy =>
        /\ mutateCalls = 0
        /\ terminated = <<>>
        /\ waits = 0
        /\ polls = 0
        /\ pc \notin {"r_terminate", "r_exit"} \cup LoopPcs
        /\ pc = "done" => result = "None"

\* a full listing with both spellings of healthy was walked to its end
C9_Witness ==
    /\ AllListedHealthy
    /\ Len(Get(instances)) >= 2
    /\ Get(instances)[1].HealthStatus = "HEALTHY"
    /\ Get(instances)[2].HealthStatus = "Healthy"
    /\ pc = "done"
    /\ result = "None"

\* C10: a terminate call is issued only when every earlier terminate call
\* succeeded and the wait after each of them returned True; after a failed
\* terminate or a timed-out wait the run is on its way out and no further
\* terminate call is issued.
C10_AbortOnFailure ==
    wf = "asg" =>
        /\ mutateCalls = Len(terminated)
        /\ mutateCalls <= waitsOk + 1
        /\ mutateCalls <= mutateOk + 1
        /\ pc = "r_terminate" => (waitsOk = mutateCalls /\ mutateOk = mutateCalls)
        /\ mutateOk < mutateCalls => pc \in {"r_exit", "done"}
        /\ (waits > 0 /\ lastEvent = "timeout") => pc \in {"r_exit", "done"}

\* two unhealthy members: the wait after the first terminate timed out and
\* the second was never terminated
C10_Witness ==
    /\ wf = "asg"
    /\ pc = "done"
    /\ result = "SystemExit"
    /\ lastEvent = "timeout"
    /\ Len(Get(instances)) = 2
    /\ Get(instances)[1].HealthStatus = "Unhealthy"
    /\ Get(instances)[2].HealthStatus = "Unhealthy"
    /\ terminated = <<1>>

\* the not-healthy members of the listing the run started from, in listing order
NotHealthyListed ==
    SelectSeq(Get(instances),
              LAMBDA inst : inst.HealthStatus \notin {"Healthy", "HEALTHY"})

\* C11: the terminate calls of one replace_unhealthy_instances run are, in
\* order, a prefix of the not-healthy members of the listing fetched at the
\* start of the run, and no instance id is terminated twice; after a normal
\* return every not-healthy member has been terminated.
C11_TerminatesInListingOrder ==
    (wf = "asg" /\ ~IsNone(instances)) =>
        /\ Len(terminated) <= Len(NotHealthyListed)
        /\ \A k \in DOMAIN terminated :
              terminated[k] = NotHealthyListed[k].InstanceId
        /\ \A j, k \in DOMAIN terminated : j # k => terminated[j] # terminated[k]
        /\ pc \in {"r_terminate"} \cup AsgLoopPcs =>
              Get(instances)[idx].InstanceId =
                  NotHealthyListed[Len(terminated) +
                      (IF pc = "r_terminate" THEN 1 ELSE 0)].InstanceId
        /\ (pc = "done" /\ result = "None") =>
              Len(terminated) = Len(NotHealthyListed)

\* both members of the listing are not healthy and the run terminated the
\* first, waited with success, terminated the second and returned
C11_Witness ==
    /\ wf = "asg"
    /\ pc = "done"
    /\ result = "None"
    /\ Len(Get(instances)) = 2
    /\ terminated = <<1, 2>>

\* what the ASG last reported to the run: the listing that ended the latest
\* wait, or the initial listing when no wait has been made
LatestReport ==
    IF IsNone(observed) THEN Get(instances) ELSE Get(observed)

\* C12 as stated: when a terminate call is about to be issued, the ASG's
\* latest report does not list the targeted instance as healthy, also for the
\* second and later items of a batch.
C12_TerminatesOnlyReportedUnhealthy ==
    (wf = "asg" /\ pc = "r_terminate") =>
        \A k \in DOMAIN LatestReport :
            LatestReport[k].InstanceId = Get(instances)[idx].InstanceId =>
                LatestReport[k].HealthStatus \notin {"Healthy", "HEALTHY"}

\* ids of the listing the run started from
ListedIds == {Get(instances)[k].InstanceId : k \in DOMAIN Get(instances)}

\* C13 as stated: a wait that returned True saw a non-empty listing with a
\* healthy instance that was not in the initial listing (the replacement).
C13_ReplacementObserved ==
    (wf = "asg" /\ waitsOk > 0 /\ ~IsNone(observed)) =>
        /\ Len(Get(observed)) > 0
        /\ \E k \in DOMAIN Get(observed) :
              /\ Get(observed)[k].InstanceId \notin ListedIds
              /\ Get(observed)[k].HealthStatus \in {"Healthy", "HEALTHY"}

\* the listed snapshots older than the retention period, in listing order
Eligible ==
    SelectSeq(Get(snapshots), LAMBDA s : utcnow - s.StartTime > RETENTION_DAYS)

\* the delete call for snapshot id was issued and succeeded
DeleteSucceeded(id) ==
    \E k \in DOMAIN deleteLog : deleteLog[k] = [SnapshotId |-> id, ok |-> TRUE]

\* the ids of a sequence of snapshots
Ids(snaps) == [k \in DOMAIN snaps |-> snaps[k].SnapshotId]

\* C14: delete_old_snapshots issues a delete call only for snapshots whose age
\* is strictly greater than the retention period (121 days is deleted, 90 days
\* and exactly 120 days are not), and the result list is exactly the eligible
\* snapshots whose delete call succeeded, in listing order.
C14_OnlyOldSnapshotsDeleted ==
    (wf = "cleanup" /\ ~IsNone(snapshots)) =>
        /\ \A k \in DOMAIN deleteLog :
              \E j \in DOMAIN Get(snapshots) :
                 /\ Get(snapshots)[j].SnapshotId = deleteLog[k].SnapshotId
                 /\ utcnow - Get(snapshots)[j].StartTime > RETENTION_DAYS
        /\ pc = "d_delete" => utcnow - Get(snapshots)[sidx].StartTime > RETENTION_DAYS
        /\ deleted_snapshots =
              Ids(SelectSeq(Eligible, LAMBDA s : DeleteSucceeded(s.SnapshotId)))
        /\ pc = "done" =>
              \A j \in DOMAIN Get(snapshots) :
                 utcnow - Get(snapshots)[j].StartTime > RETENTION_DAYS =>
                    \E k \in DOMAIN deleteLog :
                       deleteLog[k].SnapshotId = Get(snapshots)[j].SnapshotId

\* snapshots aged 121, 90 and 120 days: only the first was deleted
C14_Witness ==
    /\ wf = "cleanup"
    /\ pc = "done"
    /\ ~IsNone(snapshots)
    /\ Len(Get(snapshots)) = 3
    /\ utcnow - Get(snapshots)[1].StartTime = RETENTION_DAYS + 1
    /\ utcnow - Get(snapshots)[2].StartTime = RETENTION_DAYS - 30
    /\ utcnow - Get(snapshots)[3].StartTime = RETENTION_DAYS
    /\ deleted_snapshots = <<1>>

\* the initial inspections of the attach / expand run have all returned a resource
InitiallyInspected ==
    \/ wf = "attach" /\ ~IsNone(volume) /\ ~IsNone(instance)
    \/ wf = "expand" /\ ~IsNone(volume)

\* C15: in an attach or expand run the mutating call is issued only after the
\* initial inspections and the precondition checks have succeeded, and the
\* polling loop is entered (and any polling inspection made) only after the
\* one mutating call has returned successfully; a failed mutation is followed
\* by no poll.
C15_StrictStepOrder ==
    wf \in {"attach", "expand"} =>
        /\ (mutateCalls > 0 \/ pc \in {"a_attach", "e_modify"}) =>
              /\ InitiallyInspected
              /\ ~PreconditionFails
              /\ wf = "attach" => prereq_log = "passed"
        /\ pc \in {"a_get_volume", "a_get_instance", "a_fetched", "a_prereqs",
                   "e_get_volume", "e_check_size"} =>
              mutateCalls = 0 /\ waits = 0
        /\ (waits > 0 \/ polls > 0 \/ pc \in LoopPcs) =>
              mutateCalls = 1 /\ mutateOk = 1
        /\ (mutateCalls > 0 /\ mutateOk = 0) =>
              waits = 0 /\ polls = 0 /\ pc \in {"a_return_false", "e_return_false", "done"}

\* an attach run whose attach_volume call failed: it ended without any poll
C15_Witness ==
    /\ wf = "attach"
    /\ pc = "done"
    /\ mutateCalls = 1
    /\ mutateOk = 0
    /\ waits = 0
    /\ result = "False"

\* C16 as stated: a polling loop reports the timeout only when the step before
\* was an inspection, never directly after a sleep (or before any inspection).
C16_TimeoutOnlyAfterInspection ==
    pc \in TimeoutPcs => lastEvent = "inspect"

\* C17: the attach run returns True only if the three preconditions held on the
\* initially inspected volume and instance, attach_volume was called exactly
\* once and succeeded, and the inspection that ended the wait showed the volume
\* in-use with an attachment matching instance id, device and state 'attached';
\* the expand run returns True only if an inspection made after modify_volume
\* showed a size >= the requested size.
C17_SuccessOnlyWhenVerified ==
    /\ (wf = "attach" /\ pc = "done" /\ result = "True") =>
          /\ ~IsNone(volume)
          /\ ~IsNone(instance)
          /\ Get(volume).State = "available"
          /\ Get(instance).State = "running"
          /\ Get(volume).AvailabilityZone = Get(instance).AvailabilityZone
          /\ mutateCalls = 1
          /\ mutateOk = 1
          /\ waits = 1
          /\ ~IsNone(observed)
          /\ Get(observed).State = "in-use"
          /\ \E k \in DOMAIN Get(observed).Attachments :
                /\ Get(observed).Attachments[k].InstanceId = INSTANCE_ID
                /\ Get(observed).Attachments[k].Device = DEVICE_NAME
                /\ Get(observed).Attachments[k].State = "attached"
    /\ (wf = "expand" /\ pc = "done" /\ result = "True") =>
          /\ mutateCalls = 1
          /\ mutateOk = 1
          /\ waits = 1
          /\ ~IsNone(observed)
          /\ Get(observed).Size >= new_size

\* an attach run that returned True
C17_Witness ==
    /\ wf = "attach"
    /\ pc = "done"
    /\ result = "True"
    /\ ~IsNone(observed)
    /\ Get(observed).State = "in-use"

\* C18: in delete_old_snapshots the delete calls issued so far are, in order,
\* a prefix of the eligible snapshots of the listing (one call each, none
\* repeated), after the loop every eligible snapshot has had its call whether
\* or not earlier calls failed, and a snapshot whose call failed is not in the
\* result list.
C18_FailedDeleteDoesNotAbort ==
    (wf = "cleanup" /\ ~IsNone(snapshots)) =>
        /\ Len(deleteLog) <= Len(Eligible)
        /\ \A k \in DOMAIN deleteLog : deleteLog[k].SnapshotId = Eligible[k].SnapshotId
        /\ pc \in {"d_exit", "done"} => Len(deleteLog) = Len(Eligible)
        /\ \A k \in DOMAIN deleteLog :
              ~deleteLog[k].ok =>
                 \A j \in DOMAIN deleted_snapshots :
                    deleted_snapshots[j] # deleteLog[k].SnapshotId

\* the first delete failed, the second was still issued and succeeded
C18_Witness ==
    /\ wf = "cleanup"
    /\ pc = "done"
    /\ deleteLog = <<[SnapshotId |-> 1, ok |-> FALSE], [SnapshotId |-> 2, ok |-> TRUE]>>
    /\ deleted_snapshots = <<2>>

\* the reason the three checks give when read in the order volume-available,
\* instance-running, AZ-equal
FirstFailure ==
    IF Get(volume).State # "available" THEN "volume_not_available"
    ELSE IF Get(instance).State # "running" THEN "instance_not_running"
    ELSE IF Get(volume).AvailabilityZone # Get(instance).AvailabilityZone
         THEN "az_mismatch"
    ELSE "passed"

\* C19: verify_prereqs reports the first failing check in the order
\* volume-available, instance-running, AZ-equal (only the earliest when several
\* fail), returns True exactly when all three hold, and the call changes
\* nothing: no provider call is made and volume, instance and every counter
\* keep their values.
C19_PrereqOrder ==
    /\ [](prereq_log # "none" =>
             /\ prereq_log = FirstFailure
             /\ prereq_log = "passed" <=>
                   /\ Get(volume).State = "available"
                   /\ Get(instance).State = "running"
                   /\ Get(volume).AvailabilityZone = Get(instance).AvailabilityZone)
    /\ [][pc = "a_prereqs" =>
             /\ pc' = IF prereq_log' = "passed" THEN "a_attach" ELSE "a_return_false"
             /\ UNCHANGED <<volume, instance, result, mutateCalls, mutateOk,
                            LoopVars, AsgVars, CleanerVars>>]_vars

\* volume not available, instance not running and zones different: only the
\* volume's state was reported
C19_Witness ==
    /\ prereq_log = "volume_not_available"
    /\ Get(instance).State # "running"
    /\ Get(volume).AvailabilityZone # Get(instance).AvailabilityZone
    /\ pc = "a_return_false"

\* C20: when every call returns and every sleep ends, a run of the attach
\* workflow, the expand workflow or replace_unhealthy_instances reaches its end,
\* whatever the provider answers; and replace_unhealthy_instances never issues
\* more terminate calls than the initial listing has members.
C20_Terminates ==
    /\ [](wf \in {"attach", "expand", "asg"} => <>(pc = "done"))
    /\ []((wf = "asg" /\ ~IsNone(instances)) =>
             Len(terminated) <= Len(Get(instances)))
    /\ []((wf = "asg" /\ IsNone(instances)) => terminated = <<>>)

\* replace_unhealthy_instances terminated one instance per member of the
\* listing and ended when the last wait ran into its timeout
C20_Witness ==
    /\ wf = "asg"
    /\ pc = "done"
    /\ lastEvent = "timeout"
    /\ ~IsNone(instances)
    /\ Len(Get(instances)) = 2
    /\ Len(terminated) = 2

====
